---- MODULE Spec2Model ----
(***************************************************************************)
(* Model of the interactive crop-region engine (ImageCropper component,    *)
(* src/app/pdf-tools/page.tsx lines 468-1080).                              *)
(*                                                                         *)
(* The component keeps its state in React useState slots; every event      *)
(* handler runs on the state of the latest render, and the useEffect       *)
(* that follows a state change is part of the step that caused it.         *)
(* JavaScript numbers are modelled as exact rationals <<num, den>>.        *)
(***************************************************************************)
EXTENDS Integers, Sequences, FiniteSets, TLC

(***************************************************************************)
(* Exact rational arithmetic for JavaScript number expressions.            *)
(***************************************************************************)
Abs(n) == IF n < 0 THEN -n ELSE n

RECURSIVE GCD(_, _)
GCD(a, b) == IF b = 0 THEN a ELSE GCD(b, a % b)

Norm(n, d) ==
    LET s == IF d < 0 THEN -1 ELSE 1
        g == GCD(Abs(n), Abs(d))
    IN  <<(s * n) \div g, (s * d) \div g>>

I(n) == <<n, 1>>

RAdd(a, b) == Norm(a[1] * b[2] + b[1] * a[2], a[2] * b[2])

RSub(a, b) == Norm(a[1] * b[2] - b[1] * a[2], a[2] * b[2])

RMul(a, b) == Norm(a[1] * b[1], a[2] * b[2])

RDiv(a, b) == Norm(a[1] * b[2], a[2] * b[1])

RLt(a, b) == a[1] * b[2] < b[1] * a[2]

RLe(a, b) == a[1] * b[2] <= b[1] * a[2]

RMax(a, b) == IF RLt(a, b) THEN b ELSE a

RMin(a, b) == IF RLt(b, a) THEN b ELSE a

RAbs(a) == <<Abs(a[1]), a[2]>>

Zero == I(0)

(***************************************************************************)
(* Program constants.                                                      *)
(***************************************************************************)
MIN_SIZE == 50

handleSize == 10

ContainerHeight == 400

AspectRatios == {"free", "1:1", "4:3", "16:9", "3:2", "custom"}

Corners == {"br", "bl", "tr", "tl"}

(***************************************************************************)
(* Bounds of the model.                                                    *)
(***************************************************************************)
MaxSteps == 6

ContainerWidths == {400}

PointerXs == {0, 200, 400}

PointerYs == {0, 200, 400}

NoFile == [name |-> "", type |-> "", width |-> 0, height |-> 0]

Files ==
    { [name |-> "a.png", type |-> "image/png", width |-> 200, height |-> 200],
      [name |-> "b.jpg", type |-> "image/jpeg", width |-> 400, height |-> 200],
      [name |-> "c.txt", type |-> "text/plain", width |-> 0, height |-> 0] }

RatioTexts == { <<>>, <<"0">>, <<"2">>, <<"-", "3">> }

VARIABLES
    file, loadPending,
    aspectRatio, customRatioWidth, customRatioHeight,
    cropX, cropY, cropWidth, cropHeight,
    imageWidth, imageHeight,
    isDragging, dragStartX, dragStartY,
    isResizing, resizeStartX, resizeStartY,
    resizeStartWidth, resizeStartHeight, resizeCorner,
    containerWidth,
    isProcessing, error, exportJob, download,
    anchorRect, steps, last

fileVars == <<file, loadPending>>

ratioVars == <<aspectRatio, customRatioWidth, customRatioHeight>>

cropVars == <<cropX, cropY, cropWidth, cropHeight>>

imageVars == <<imageWidth, imageHeight>>

dragVars == <<isDragging, dragStartX, dragStartY>>

resizeVars == <<isResizing, resizeStartX, resizeStartY,
                resizeStartWidth, resizeStartHeight, resizeCorner>>

exportVars == <<isProcessing, error, exportJob, download>>

historyVars == <<anchorRect>>

vars == <<fileVars, ratioVars, cropVars, imageVars, dragVars, resizeVars,
          containerWidth, exportVars, historyVars, steps, last>>

Rect(x, y, w, h) == [x |-> x, y |-> y, width |-> w, height |-> h]

\* error === null
NoError == ""

\* No export is waiting for its image, and nothing was offered for download.
NoJob == [file |-> NoFile, rect |-> Rect(Zero, Zero, Zero, Zero)]

NoDownload ==
    [file |-> NoFile, rect |-> Rect(Zero, Zero, Zero, Zero),
     canvasWidth |-> 0, canvasHeight |-> 0, data |-> "", name |-> ""]

CropRect == Rect(cropX, cropY, cropWidth, cropHeight)

Init ==
    /\ file = NoFile
    /\ loadPending = FALSE
    /\ aspectRatio = "free"
    /\ customRatioWidth = 4
    /\ customRatioHeight = 3
    /\ cropX = Zero
    /\ cropY = Zero
    /\ cropWidth = Zero
    /\ cropHeight = Zero
    /\ imageWidth = 0
    /\ imageHeight = 0
    /\ isDragging = FALSE
    /\ dragStartX = Zero
    /\ dragStartY = Zero
    /\ isResizing = FALSE
    /\ resizeStartX = 0
    /\ resizeStartY = 0
    /\ resizeStartWidth = Zero
    /\ resizeStartHeight = Zero
    /\ resizeCorner = ""
    /\ containerWidth \in ContainerWidths
    /\ isProcessing = FALSE
    /\ error = NoError
    /\ exportJob = NoJob
    /\ download = NoDownload
    /\ anchorRect = Rect(Zero, Zero, Zero, Zero)
    /\ steps = 0
    /\ last = "init"

(***************************************************************************)
(* Number.parseInt(e.target.value) || 1 on the text of a number input.     *)
(***************************************************************************)
Digits == {"0", "1", "2", "3", "4", "5", "6", "7", "8", "9"}

DigitValue(c) ==
    CASE c = "0" -> 0 [] c = "1" -> 1 [] c = "2" -> 2 [] c = "3" -> 3
      [] c = "4" -> 4 [] c = "5" -> 5 [] c = "6" -> 6 [] c = "7" -> 7
      [] c = "8" -> 8 [] c = "9" -> 9

RECURSIVE ParseDigits(_, _, _)
ParseDigits(s, i, acc) ==
    IF i > Len(s) \/ s[i] \notin Digits
    THEN acc
    ELSE ParseDigits(s, i + 1, 10 * acc + DigitValue(s[i]))

\* NaN is represented by 0: both are falsy and both are replaced by 1.
ParseIntOr1(s) ==
    LET neg == Len(s) > 0 /\ s[1] = "-"
        from == IF neg THEN 2 ELSE 1
        hasDigit == Len(s) >= from /\ s[from] \in Digits
        v == IF hasDigit THEN ParseDigits(s, from, 0) ELSE 0
        n == IF neg THEN -v ELSE v
    IN  IF n = 0 THEN 1 ELSE n

(***************************************************************************)
(* Aspect ratio useEffect: the centered rectangle of the selected ratio.   *)
(***************************************************************************)
EffectRatio(ar, crw, crh) ==
    CASE ar = "1:1" -> I(1)
      [] ar = "4:3" -> RDiv(I(4), I(3))
      [] ar = "16:9" -> RDiv(I(16), I(9))
      [] ar = "3:2" -> RDiv(I(3), I(2))
      [] ar = "custom" -> RDiv(I(crw), I(crh))

\* Mutant: the width is the image's width in both branches.
FitWidth_ImageWidth(ratio, iw, ih) == I(iw)

FitWidth(ratio, iw, ih) ==
    IF RLt(ratio, RDiv(I(iw), I(ih)))
    THEN RMul(I(ih), ratio)
    ELSE I(iw)

FitHeight(ratio, iw, ih) ==
    IF RLt(ratio, RDiv(I(iw), I(ih)))
    THEN I(ih)
    ELSE RDiv(I(iw), ratio)

\* Mutant: the offsets are not halved, so the rectangle is not centered.
CenteredRect_NotHalved(ratio, iw, ih) ==
    LET newWidth == FitWidth(ratio, iw, ih)
        newHeight == FitHeight(ratio, iw, ih)
    IN  Rect(RSub(I(iw), newWidth), RSub(I(ih), newHeight), newWidth, newHeight)

CenteredRect(ratio, iw, ih) ==
    LET newWidth == FitWidth(ratio, iw, ih)
        newHeight == FitHeight(ratio, iw, ih)
    IN  Rect(RDiv(RSub(I(iw), newWidth), I(2)),
             RDiv(RSub(I(ih), newHeight), I(2)),
             newWidth, newHeight)

\* Mutant: Free falls through to a reset to the full image.
AspectRatioEffect_FreeResets(ar, crw, crh, iw, ih, current) ==
    IF iw > 0 /\ ih > 0
    THEN IF ar = "free"
         THEN Rect(Zero, Zero, I(iw), I(ih))
         ELSE IF RLt(Zero, EffectRatio(ar, crw, crh))
              THEN CenteredRect(EffectRatio(ar, crw, crh), iw, ih)
              ELSE current
    ELSE current

\* The body of the effect: the rectangle it leaves, given the one it finds.
AspectRatioEffect(ar, crw, crh, iw, ih, current) ==
    IF iw > 0 /\ ih > 0
    THEN IF ar = "free"
         THEN current
         ELSE IF RLt(Zero, EffectRatio(ar, crw, crh))
              THEN CenteredRect(EffectRatio(ar, crw, crh), iw, ih)
              ELSE current
    ELSE current

\* The effect runs after a render in which one of its dependencies changed.
DepsChanged(ar, crw, crh, iw, ih) ==
    <<ar, crw, crh, iw, ih>> /=
        <<aspectRatio, customRatioWidth, customRatioHeight, imageWidth, imageHeight>>

AfterRender(ar, crw, crh, iw, ih, current) ==
    IF DepsChanged(ar, crw, crh, iw, ih)
    THEN AspectRatioEffect(ar, crw, crh, iw, ih, current)
    ELSE current

SetCrop(r) ==
    /\ cropX' = r.x
    /\ cropY' = r.y
    /\ cropWidth' = r.width
    /\ cropHeight' = r.height

(***************************************************************************)
(* Coordinate mapping, recomputed from the container on every event.       *)
(***************************************************************************)
\* containerRect.width / imageWidth and containerRect.height / imageHeight
DisplayPerImageX == RDiv(I(containerWidth), I(imageWidth))

DisplayPerImageY == RDiv(I(ContainerHeight), I(imageHeight))

scaleX == RDiv(I(imageWidth), I(containerWidth))

scaleY == RDiv(I(imageHeight), I(ContainerHeight))

(***************************************************************************)
(* handleMouseDown: corner hit-test chain, then the inside test.           *)
(***************************************************************************)
\* Mutant: no edge is ever within reach.
NearEdge_Never(mouse, edge) == RLt(RAbs(RSub(I(mouse), edge)), Zero)

NearEdge(mouse, edge) == RLt(RAbs(RSub(I(mouse), edge)), I(handleSize))

isOnLeftEdge(mouseX) == NearEdge(mouseX, RMul(cropX, DisplayPerImageX))

isOnRightEdge(mouseX) ==
    NearEdge(mouseX, RMul(RAdd(cropX, cropWidth), DisplayPerImageX))

isOnTopEdge(mouseY) == NearEdge(mouseY, RMul(cropY, DisplayPerImageY))

isOnBottomEdge(mouseY) ==
    NearEdge(mouseY, RMul(RAdd(cropY, cropHeight), DisplayPerImageY))

\* Mutant: the chain is tested in the opposite order.
HitCorner_TopLeftFirst(mouseX, mouseY) ==
    LET onLeft == isOnLeftEdge(mouseX)
        onRight == isOnRightEdge(mouseX)
        onTop == isOnTopEdge(mouseY)
        onBottom == isOnBottomEdge(mouseY)
    IN  IF onLeft /\ onTop THEN "tl"
        ELSE IF onRight /\ onTop THEN "tr"
        ELSE IF onLeft /\ onBottom THEN "bl"
        ELSE IF onRight /\ onBottom THEN "br"
        ELSE ""

HitCorner(mouseX, mouseY) ==
    LET onLeft == isOnLeftEdge(mouseX)
        onRight == isOnRightEdge(mouseX)
        onTop == isOnTopEdge(mouseY)
        onBottom == isOnBottomEdge(mouseY)
    IN  IF onRight /\ onBottom THEN "br"
        ELSE IF onLeft /\ onBottom THEN "bl"
        ELSE IF onRight /\ onTop THEN "tr"
        ELSE IF onLeft /\ onTop THEN "tl"
        ELSE ""

\* Mutant: every point counts as inside the crop area.
InsideCropArea_Everywhere(mouseX, mouseY) == mouseX >= 0 /\ mouseY >= 0

\* The crop area's bounding box relative to the container: its style places it
\* at cropX / imageWidth, ... percent of the container.
InsideCropArea(mouseX, mouseY) ==
    /\ RLe(RMul(cropX, DisplayPerImageX), I(mouseX))
    /\ RLe(I(mouseX), RMul(RAdd(cropX, cropWidth), DisplayPerImageX))
    /\ RLe(RMul(cropY, DisplayPerImageY), I(mouseY))
    /\ RLe(I(mouseY), RMul(RAdd(cropY, cropHeight), DisplayPerImageY))

HandleMouseDown(mouseX, mouseY) ==
    /\ file /= NoFile
    /\ last' = "down"
    /\ UNCHANGED <<fileVars, ratioVars, cropVars, imageVars, containerWidth,
                   exportVars>>
    /\ IF imageWidth = 0
       THEN UNCHANGED <<dragVars, resizeVars, historyVars>>
       ELSE IF HitCorner(mouseX, mouseY) /= ""
       THEN /\ isResizing' = TRUE
            /\ resizeStartX' = mouseX
            /\ resizeStartY' = mouseY
            /\ resizeCorner' = HitCorner(mouseX, mouseY)
            /\ resizeStartWidth' = cropWidth
            /\ resizeStartHeight' = cropHeight
            /\ anchorRect' = CropRect
            /\ UNCHANGED dragVars
       ELSE IF InsideCropArea(mouseX, mouseY)
       THEN /\ isDragging' = TRUE
            /\ dragStartX' = RSub(I(mouseX), RMul(cropX, DisplayPerImageX))
            /\ dragStartY' = RSub(I(mouseY), RMul(cropY, DisplayPerImageY))
            /\ anchorRect' = CropRect
            /\ UNCHANGED resizeVars
       ELSE UNCHANGED <<dragVars, resizeVars, historyVars>>

(***************************************************************************)
(* handleMouseMove.                                                        *)
(***************************************************************************)
\* Mutant: the upper limit forgets the rectangle's extent.
ConstrainPosition_NoExtent(v, limit, extent) ==
    RMax(Zero, RMin(v, I(limit)))

\* Mutant: the lower limit 0 is missing.
ConstrainPosition_NoLowerBound(v, limit, extent) ==
    RMin(v, RSub(I(limit), extent))

\* Math.max(0, Math.min(v, limit - extent))
ConstrainPosition(v, limit, extent) ==
    RMax(Zero, RMin(v, RSub(I(limit), extent)))

\* The drag branch, on the rectangle cur of the latest render.
DragRectAt(cur, mouseX, mouseY) ==
    Rect(ConstrainPosition(RMul(RSub(I(mouseX), dragStartX), scaleX),
                           imageWidth, cur.width),
         ConstrainPosition(RMul(RSub(I(mouseY), dragStartY), scaleY),
                           imageHeight, cur.height),
         cur.width, cur.height)

DragRect(mouseX, mouseY) == DragRectAt(CropRect, mouseX, mouseY)

currentRatio ==
    IF aspectRatio /= "free" /\ aspectRatio /= "custom"
    THEN IF aspectRatio = "1:1" THEN I(1)
         ELSE IF aspectRatio = "4:3" THEN RDiv(I(4), I(3))
         ELSE IF aspectRatio = "16:9" THEN RDiv(I(16), I(9))
         ELSE RDiv(I(3), I(2))
    ELSE IF aspectRatio = "custom"
         THEN RDiv(I(customRatioWidth), I(customRatioHeight))
         ELSE Zero

\* Mutant: no ratio ever counts as locked.
RatioLocked_Never == FALSE

RatioLocked == RLt(Zero, currentRatio)

\* Math.max(50, start + delta)
GrowFrom(start, delta) == RMax(I(MIN_SIZE), RAdd(start, delta))

\* Math.min(start - 50, delta)
ShrinkChange(start, delta) == RMin(RSub(start, I(MIN_SIZE)), delta)

\* Mutant: the height is the width times the ratio.
HeightForWidth_Multiplied(newWidth) == RMul(newWidth, currentRatio)

\* newHeight = newWidth / currentRatio
HeightForWidth(newWidth) == RDiv(newWidth, currentRatio)

\* The candidate rectangle of a corner, before the boundary clamp; newX and
\* newY start from cur, the rectangle of the latest render.
ResizeCandidate(cur, corner, deltaX, deltaY) ==
    LET widthChange == ShrinkChange(resizeStartWidth, deltaX)
        heightChange == ShrinkChange(resizeStartHeight, deltaY)
    IN  CASE corner = "br" ->
               LET newWidth == GrowFrom(resizeStartWidth, deltaX)
               IN  Rect(cur.x, cur.y, newWidth,
                        IF RatioLocked THEN HeightForWidth(newWidth)
                        ELSE GrowFrom(resizeStartHeight, deltaY))
          [] corner = "bl" ->
               LET newWidth == RSub(resizeStartWidth, widthChange)
               IN  Rect(RAdd(cur.x, widthChange), cur.y, newWidth,
                        IF RatioLocked THEN HeightForWidth(newWidth)
                        ELSE GrowFrom(resizeStartHeight, deltaY))
          [] corner = "tr" ->
               LET newWidth == GrowFrom(resizeStartWidth, deltaX)
               IN  IF RatioLocked
                   THEN Rect(cur.x, cur.y, newWidth, HeightForWidth(newWidth))
                   ELSE Rect(cur.x, RAdd(cur.y, heightChange), newWidth,
                             RSub(resizeStartHeight, heightChange))
          [] corner = "tl" ->
               LET newWidth == RSub(resizeStartWidth, widthChange)
               IN  IF RatioLocked
                   THEN Rect(RAdd(cur.x, widthChange), cur.y, newWidth,
                             HeightForWidth(newWidth))
                   ELSE Rect(RAdd(cur.x, widthChange), RAdd(cur.y, heightChange),
                             newWidth, RSub(resizeStartHeight, heightChange))
          [] OTHER ->
               Rect(cur.x, cur.y, resizeStartWidth, resizeStartHeight)

\* if (pos < 0) { extent += pos; pos = 0 }
ClampLow(r) ==
    LET a == IF RLt(r.x, Zero)
             THEN [r EXCEPT !.width = RAdd(r.width, r.x), !.x = Zero]
             ELSE r
    IN  IF RLt(a.y, Zero)
        THEN [a EXCEPT !.height = RAdd(a.height, a.y), !.y = Zero]
        ELSE a

\* Mutant: only the width is clamped at the far edge.
ClampHigh_WidthOnly(r) ==
    IF RLt(I(imageWidth), RAdd(r.x, r.width))
    THEN [r EXCEPT !.width = RSub(I(imageWidth), r.x)]
    ELSE r

\* if (pos + extent > limit) extent = limit - pos
ClampHigh(r) ==
    LET a == IF RLt(I(imageWidth), RAdd(r.x, r.width))
             THEN [r EXCEPT !.width = RSub(I(imageWidth), r.x)]
             ELSE r
    IN  IF RLt(I(imageHeight), RAdd(a.y, a.height))
        THEN [a EXCEPT !.height = RSub(I(imageHeight), a.y)]
        ELSE a

ConstrainToImage(r) == ClampHigh(ClampLow(r))

ResizeRectAt(cur, mouseX, mouseY) ==
    ConstrainToImage(
        ResizeCandidate(cur, resizeCorner,
                        RMul(RSub(I(mouseX), I(resizeStartX)), scaleX),
                        RMul(RSub(I(mouseY), I(resizeStartY)), scaleY)))

ResizeRect(mouseX, mouseY) == ResizeRectAt(CropRect, mouseX, mouseY)

\* Mutant: the early return is missing.
HandleMouseMove_NoEarlyReturn(mouseX, mouseY) ==
    /\ file /= NoFile
    /\ last' = "move"
    /\ UNCHANGED <<fileVars, ratioVars, imageVars, dragVars, resizeVars,
                   containerWidth, exportVars, anchorRect>>
    /\ IF isDragging
       THEN SetCrop(DragRect(mouseX, mouseY))
       ELSE SetCrop(ResizeRect(mouseX, mouseY))

HandleMouseMove(mouseX, mouseY) ==
    /\ file /= NoFile
    /\ last' = "move"
    /\ UNCHANGED <<fileVars, ratioVars, imageVars, dragVars, resizeVars,
                   containerWidth, exportVars, anchorRect>>
    /\ IF ~isDragging /\ ~isResizing
       THEN UNCHANGED cropVars
       ELSE IF isDragging
       THEN SetCrop(DragRect(mouseX, mouseY))
       ELSE SetCrop(ResizeRect(mouseX, mouseY))

\* Mutant: only the drag is ended.
HandleMouseUp_DragOnly ==
    /\ file /= NoFile
    /\ isDragging' = FALSE
    /\ last' = "up"
    /\ UNCHANGED <<fileVars, ratioVars, cropVars, imageVars, dragStartX,
                   dragStartY, resizeVars, containerWidth, exportVars,
                   historyVars>>

\* onMouseUp and onMouseLeave are both bound to handleMouseUp.
HandleMouseUp ==
    /\ file /= NoFile
    /\ isDragging' = FALSE
    /\ isResizing' = FALSE
    /\ last' = "up"
    /\ UNCHANGED <<fileVars, ratioVars, cropVars, imageVars, dragStartX,
                   dragStartY, resizeStartX, resizeStartY, resizeStartWidth,
                   resizeStartHeight, resizeCorner, containerWidth, exportVars,
                   historyVars>>

\* Mutant: the size is restored, the position is kept.
resetCrop_SizeOnly ==
    /\ file /= NoFile
    /\ SetCrop(Rect(cropX, cropY, I(imageWidth), I(imageHeight)))
    /\ last' = "reset"
    /\ UNCHANGED <<fileVars, ratioVars, imageVars, dragVars, resizeVars,
                   containerWidth, exportVars, historyVars>>

resetCrop ==
    /\ file /= NoFile
    /\ SetCrop(Rect(Zero, Zero, I(imageWidth), I(imageHeight)))
    /\ last' = "reset"
    /\ UNCHANGED <<fileVars, ratioVars, imageVars, dragVars, resizeVars,
                   containerWidth, exportVars, historyVars>>

(***************************************************************************)
(* File selection, image load and removal.                                 *)
(***************************************************************************)
IsImageType(f) == SubSeq(f.type, 1, 6) = "image/"

\* The browser can decode the file: its image has natural dimensions and
\* fires load; otherwise it fires error.
Decodes(f) == f.width > 0 /\ f.height > 0

\* The file input is rendered only while no file is selected.  The effect on
\* imageUrl registers onImageLoad for the new <img>.
handleFileChange(f) ==
    /\ file = NoFile
    /\ last' = "file"
    /\ IF ~IsImageType(f)
       THEN UNCHANGED fileVars
       ELSE /\ file' = f
            /\ loadPending' = TRUE
    /\ IF ~IsImageType(f)
       THEN UNCHANGED error
       ELSE error' = NoError
    /\ UNCHANGED <<ratioVars, cropVars, imageVars, dragVars, resizeVars,
                   containerWidth, isProcessing, exportJob, download,
                   historyVars>>

\* onImageLoad, followed by the aspect ratio effect when the bounds changed.
onImageLoad ==
    /\ file /= NoFile
    /\ loadPending
    /\ Decodes(file)
    /\ loadPending' = FALSE
    /\ imageWidth' = file.width
    /\ imageHeight' = file.height
    /\ SetCrop(AfterRender(aspectRatio, customRatioWidth, customRatioHeight,
                           file.width, file.height,
                           Rect(Zero, Zero, I(file.width), I(file.height))))
    /\ last' = "load"
    /\ UNCHANGED <<file, ratioVars, dragVars, resizeVars, containerWidth,
                   exportVars, historyVars>>

RemoveImage ==
    /\ file /= NoFile
    /\ file' = NoFile
    /\ loadPending' = FALSE
    /\ last' = "remove"
    /\ UNCHANGED <<ratioVars, cropVars, imageVars, dragVars, resizeVars,
                   containerWidth, exportVars, historyVars>>

(***************************************************************************)
(* Aspect ratio selection and the custom ratio inputs.                     *)
(***************************************************************************)
setAspectRatio(value) ==
    /\ file /= NoFile
    /\ aspectRatio' = value
    /\ SetCrop(AfterRender(value, customRatioWidth, customRatioHeight,
                           imageWidth, imageHeight, CropRect))
    /\ last' = "ratio"
    /\ UNCHANGED <<fileVars, customRatioWidth, customRatioHeight, imageVars,
                   dragVars, resizeVars, containerWidth, exportVars,
                   historyVars>>

setCustomRatioWidth(text) ==
    /\ file /= NoFile
    /\ aspectRatio = "custom"
    /\ customRatioWidth' = ParseIntOr1(text)
    /\ SetCrop(AfterRender(aspectRatio, ParseIntOr1(text), customRatioHeight,
                           imageWidth, imageHeight, CropRect))
    /\ last' = "customW"
    /\ UNCHANGED <<fileVars, aspectRatio, customRatioHeight, imageVars,
                   dragVars, resizeVars, containerWidth, exportVars,
                   historyVars>>

setCustomRatioHeight(text) ==
    /\ file /= NoFile
    /\ aspectRatio = "custom"
    /\ customRatioHeight' = ParseIntOr1(text)
    /\ SetCrop(AfterRender(aspectRatio, customRatioWidth, ParseIntOr1(text),
                           imageWidth, imageHeight, CropRect))
    /\ last' = "customH"
    /\ UNCHANGED <<fileVars, aspectRatio, customRatioWidth, imageVars,
                   dragVars, resizeVars, containerWidth, exportVars,
                   historyVars>>

\* One event is delivered per step, at most MaxSteps in a run.
Step(event) ==
    /\ steps < MaxSteps
    /\ steps' = steps + 1
    /\ event

Next ==
    \/ \E f \in Files : Step(handleFileChange(f))
    \/ Step(onImageLoad)
    \/ Step(RemoveImage)
    \/ \E value \in AspectRatios : Step(setAspectRatio(value))
    \/ \E text \in RatioTexts : Step(setCustomRatioWidth(text))
    \/ \E text \in RatioTexts : Step(setCustomRatioHeight(text))
    \/ \E mouseX \in PointerXs, mouseY \in PointerYs :
           Step(HandleMouseDown(mouseX, mouseY))
    \/ \E mouseX \in PointerXs, mouseY \in PointerYs :
           Step(HandleMouseMove(mouseX, mouseY))
    \/ Step(HandleMouseUp)
    \/ Step(resetCrop)

Spec == Init /\ [][Next]_vars

(***************************************************************************)
(* The runs in which the controls outside the container (file input,       *)
(* ratio select, custom inputs, reset and remove buttons) are operated     *)
(* with the pointer, which leaves the container and ends the gesture       *)
(* first.  Every such run is a run of Spec.                                *)
(***************************************************************************)
Idle == ~isDragging /\ ~isResizing

NextControlsIdle ==
    \/ \E f \in Files : Step(Idle /\ handleFileChange(f))
    \/ Step(onImageLoad)
    \/ Step(Idle /\ RemoveImage)
    \/ \E value \in AspectRatios : Step(Idle /\ setAspectRatio(value))
    \/ \E text \in RatioTexts : Step(Idle /\ setCustomRatioWidth(text))
    \/ \E text \in RatioTexts : Step(Idle /\ setCustomRatioHeight(text))
    \/ \E mouseX \in PointerXs, mouseY \in PointerYs :
           Step(HandleMouseDown(mouseX, mouseY))
    \/ \E mouseX \in PointerXs, mouseY \in PointerYs :
           Step(HandleMouseMove(mouseX, mouseY))
    \/ Step(HandleMouseUp)
    \/ Step(Idle /\ resetCrop)

SpecControlsIdle == Init /\ [][NextControlsIdle]_vars

(***************************************************************************)
(* The resize-under-ratio scenario: a 1000 x 1000 image in the 400 x 400   *)
(* container, ratio 4:3, and the pointer positions that lead to the        *)
(* rectangle {0, 0, 400, 300} and from its bottom-right corner to image    *)
(* point (600, 600), display point (240, 240).                             *)
(***************************************************************************)
MaxScenarioSteps == 11

ScenarioFile ==
    [name |-> "d.png", type |-> "image/png", width |-> 1000, height |-> 1000]

ScenarioXs == {160, 240, 400}

ScenarioYs == {70, 120, 240, 350}

ScenarioStep(event) ==
    /\ steps < MaxScenarioSteps
    /\ steps' = steps + 1
    /\ event

NextScenario ==
    \/ ScenarioStep(handleFileChange(ScenarioFile))
    \/ ScenarioStep(onImageLoad)
    \/ ScenarioStep(setAspectRatio("4:3"))
    \/ \E mouseX \in ScenarioXs, mouseY \in ScenarioYs :
           ScenarioStep(HandleMouseDown(mouseX, mouseY))
    \/ \E mouseX \in ScenarioXs, mouseY \in ScenarioYs :
           ScenarioStep(HandleMouseMove(mouseX, mouseY))
    \/ ScenarioStep(HandleMouseUp)

SpecScenario == Init /\ [][NextScenario]_vars

(***************************************************************************)
(* cropImage: the export.  The click handler runs up to the await; the     *)
(* image it created then fires load or error, and the rest of the handler  *)
(* runs in that later step, on the values the closure captured.            *)
(***************************************************************************)
MaxExportSteps == 7

\* An image file whose content cannot be decoded.
CorruptFile ==
    [name |-> "e.png", type |-> "image/png", width |-> 0, height |-> 0]

\* A 200 x 200 image whose name has no extension.
PlainNameFile ==
    [name |-> "photo", type |-> "image/png", width |-> 200, height |-> 200]

\* The 200 x 200 images and the corrupt one; the pointer on the top edge.
ExportFiles ==
    {f \in Files : f.name = "a.png"} \cup {CorruptFile, PlainNameFile}

ExportXs == {0, 200}

ExportYs == {0}

SelectImageError == "Please select an image to crop"

CropError == "An error occurred while cropping the image. Please try again."

\* The number truncated toward zero.
Truncate(a) == IF a[1] >= 0 THEN a[1] \div a[2] ELSE -((-a[1]) \div a[2])

\* canvas.width = v: the number is converted to an unsigned long (truncated,
\* modulo 2^32); a value above 2^31 - 1 leaves the attribute's default (300
\* wide, 150 high).  A negative number down to -2^31 wraps above 2^31 - 1.
CanvasDimension(v, default) ==
    LET t == Truncate(v)
    IN  IF t < 0 \/ t > 2147483647 THEN default ELSE t

\* canvas.toDataURL of a canvas without pixels is "data:,".
CanvasData(w, h) == IF w = 0 \/ h = 0 THEN "data:," ELSE "image"

\* String.prototype.lastIndexOf(c) for a one-character c, searched from
\* position i (1-based) down: the 0-based index, or -1.
RECURSIVE LastIndexFrom(_, _, _)
LastIndexFrom(s, c, i) ==
    IF i = 0 THEN -1
    ELSE IF SubSeq(s, i, i) = c THEN i - 1
    ELSE LastIndexFrom(s, c, i - 1)

lastIndexOf(s, c) == LastIndexFrom(s, c, Len(s))

\* An index argument of substring: below 0 it is 0, above the length it is
\* the length.
ClampIndex(s, i) == IF i < 0 THEN 0 ELSE IF i > Len(s) THEN Len(s) ELSE i

\* String.prototype.substring(start, end): the arguments are clamped and
\* swapped when start > end.
substring(s, start, end) ==
    LET a == ClampIndex(s, start)
        b == ClampIndex(s, end)
    IN  IF a <= b THEN SubSeq(s, a + 1, b) ELSE SubSeq(s, b + 1, a)

\* a || b on strings: the empty string is falsy.
OrElse(a, b) == IF a = "" THEN b ELSE a

\* a.download = `${fileName}_cropped${extension}`
DownloadName(name) ==
    LET fileName ==
            OrElse(substring(name, 0, lastIndexOf(name, ".")), name)
        extension ==
            OrElse(substring(name, lastIndexOf(name, "."), Len(name)), ".jpg")
    IN  fileName \o "_cropped" \o extension

\* The export button is rendered with a file and disabled while processing.
ExportEnabled == file /= NoFile /\ ~isProcessing

cropImage ==
    /\ last' = "export"
    /\ IF file = NoFile
       THEN /\ error' = SelectImageError
            /\ UNCHANGED <<isProcessing, exportJob, download>>
       ELSE /\ isProcessing' = TRUE
            /\ error' = NoError
            /\ exportJob' = [file |-> file, rect |-> CropRect]
            /\ UNCHANGED download
    /\ UNCHANGED <<fileVars, ratioVars, cropVars, imageVars, dragVars,
                   resizeVars, containerWidth, historyVars>>

\* Mutant: the load callback never resolves the promise, so the handler
\* never reaches finally.
exportImageLoaded_NoResolve ==
    /\ exportJob /= NoJob
    /\ Decodes(exportJob.file)
    /\ LET w == CanvasDimension(exportJob.rect.width, 300)
           h == CanvasDimension(exportJob.rect.height, 150)
       IN  download' = [file |-> exportJob.file, rect |-> exportJob.rect,
                        canvasWidth |-> w, canvasHeight |-> h,
                        data |-> CanvasData(w, h),
                        name |-> DownloadName(exportJob.file.name)]
    /\ exportJob' = NoJob
    /\ last' = "exported"
    /\ UNCHANGED <<fileVars, ratioVars, cropVars, imageVars, dragVars,
                   resizeVars, containerWidth, isProcessing, error,
                   historyVars>>

\* img.onload: draw, offer the download, resolve; then finally.
exportImageLoaded ==
    /\ exportJob /= NoJob
    /\ Decodes(exportJob.file)
    /\ LET w == CanvasDimension(exportJob.rect.width, 300)
           h == CanvasDimension(exportJob.rect.height, 150)
       IN  download' = [file |-> exportJob.file, rect |-> exportJob.rect,
                        canvasWidth |-> w, canvasHeight |-> h,
                        data |-> CanvasData(w, h),
                        name |-> DownloadName(exportJob.file.name)]
    /\ isProcessing' = FALSE
    /\ exportJob' = NoJob
    /\ last' = "exported"
    /\ UNCHANGED <<fileVars, ratioVars, cropVars, imageVars, dragVars,
                   resizeVars, containerWidth, error, historyVars>>

\* Mutant: the finally block is missing, isProcessing stays true.
exportImageError_NoFinally ==
    /\ exportJob /= NoJob
    /\ ~Decodes(exportJob.file)
    /\ error' = CropError
    /\ exportJob' = NoJob
    /\ last' = "exportFailed"
    /\ UNCHANGED <<fileVars, ratioVars, cropVars, imageVars, dragVars,
                   resizeVars, containerWidth, isProcessing, download,
                   historyVars>>

\* img.onerror: reject, caught; then finally.
exportImageError ==
    /\ exportJob /= NoJob
    /\ ~Decodes(exportJob.file)
    /\ error' = CropError
    /\ isProcessing' = FALSE
    /\ exportJob' = NoJob
    /\ last' = "exportFailed"
    /\ UNCHANGED <<fileVars, ratioVars, cropVars, imageVars, dragVars,
                   resizeVars, containerWidth, download, historyVars>>

ExportStep(event) ==
    /\ steps < MaxExportSteps
    /\ steps' = steps + 1
    /\ event

NextExport ==
    \/ \E f \in ExportFiles : ExportStep(handleFileChange(f))
    \/ ExportStep(onImageLoad)
    \/ ExportStep(RemoveImage)
    \/ ExportStep(setAspectRatio("16:9"))
    \/ \E mouseX \in ExportXs, mouseY \in ExportYs :
           ExportStep(HandleMouseDown(mouseX, mouseY))
    \/ \E mouseX \in ExportXs, mouseY \in ExportYs :
           ExportStep(HandleMouseMove(mouseX, mouseY))
    \/ ExportStep(HandleMouseUp)
    \/ ExportStep(resetCrop)
    \/ ExportStep(ExportEnabled /\ cropImage)
    \/ ExportStep(exportImageLoaded)
    \/ ExportStep(exportImageError)

SpecExport == Init /\ [][NextExport]_vars

\* The export's image settles on its own, not as one of the user's events:
\* its load or error callback is not counted among them.
Settle(callback) ==
    /\ steps' = steps
    /\ callback

NextExportSettling ==
    \/ \E f \in ExportFiles : ExportStep(handleFileChange(f))
    \/ ExportStep(onImageLoad)
    \/ ExportStep(RemoveImage)
    \/ ExportStep(setAspectRatio("16:9"))
    \/ \E mouseX \in ExportXs, mouseY \in ExportYs :
           ExportStep(HandleMouseDown(mouseX, mouseY))
    \/ \E mouseX \in ExportXs, mouseY \in ExportYs :
           ExportStep(HandleMouseMove(mouseX, mouseY))
    \/ ExportStep(HandleMouseUp)
    \/ ExportStep(resetCrop)
    \/ ExportStep(ExportEnabled /\ cropImage)
    \/ Settle(exportImageLoaded)
    \/ Settle(exportImageError)

\* The browser fires load or error on the image the export created.
SpecExportSettling ==
    /\ Init
    /\ [][NextExportSettling]_vars
    /\ WF_vars(Settle(exportImageLoaded))
    /\ WF_vars(Settle(exportImageError))

(***************************************************************************)
(* Vocabulary of the claims.                                               *)
(***************************************************************************)
InImage(r) ==
    /\ RLe(Zero, r.x)
    /\ RLe(Zero, r.y)
    /\ RLe(RAdd(r.x, r.width), I(imageWidth))
    /\ RLe(RAdd(r.y, r.height), I(imageHeight))

FullImage == Rect(Zero, Zero, I(imageWidth), I(imageHeight))

ImageLoaded == imageWidth > 0 /\ imageHeight > 0

\* The state right after a pointer-move that was handled as a drag / a resize.
AfterDragMove == last = "move" /\ isDragging

AfterResizeMove == last = "move" /\ isResizing /\ ~isDragging

Clamp(v, lo, hi) == IF RLt(v, lo) THEN lo ELSE IF RLt(hi, v) THEN hi ELSE v

\* C1: after every pointer-move of a drag the crop rectangle lies inside the
\* image: 0 <= x, 0 <= y, x + width <= imageWidth, y + height <= imageHeight.
C1_DragStaysInImage == AfterDragMove => InImage(CropRect)

\* A drag has moved a rectangle that is smaller than the image.
C1_Witness ==
    /\ AfterDragMove
    /\ CropRect /= anchorRect
    /\ RLt(cropHeight, I(imageHeight))
    /\ InImage(anchorRect)

\* C2: after every pointer-move of a corner resize, free or locked, the crop
\* rectangle lies inside the image.
C2_ResizeStaysInImage == AfterResizeMove => InImage(CropRect)

\* A top-left resize under a locked ratio has changed the rectangle.
C2_Witness ==
    /\ AfterResizeMove
    /\ resizeCorner = "tl"
    /\ RatioLocked
    /\ CropRect /= anchorRect

\* C3: once an image has loaded, width >= MIN_SIZE and height >= MIN_SIZE in
\* every reachable state.
C3_MinSize ==
    ImageLoaded =>
        /\ RLe(I(MIN_SIZE), cropWidth)
        /\ RLe(I(MIN_SIZE), cropHeight)

\* C4: with a ratio r locked, after every pointer-move of a resize the
\* stored rectangle has width / height = r.
C4_RatioKept ==
    (AfterResizeMove /\ RatioLocked) =>
        cropWidth = RMul(currentRatio, cropHeight)

OppositeCorner(corner, r) ==
    CASE corner = "br" -> <<r.x, r.y>>
      [] corner = "bl" -> <<RAdd(r.x, r.width), r.y>>
      [] corner = "tr" -> <<r.x, RAdd(r.y, r.height)>>
      [] corner = "tl" -> <<RAdd(r.x, r.width), RAdd(r.y, r.height)>>
      [] OTHER -> <<r.x, r.y>>

AnchorHeld == OppositeCorner(resizeCorner, CropRect) =
              OppositeCorner(resizeCorner, anchorRect)

\* C5: a pointer-move of a resize on corner K leaves the corner opposite K
\* where it was at pointer-down (for every move of the gesture: if it is
\* still there before the move, it is there after it).
C5_OppositeCornerFixed ==
    [][\A mouseX \in PointerXs, mouseY \in PointerYs :
          (HandleMouseMove(mouseX, mouseY) /\ isResizing /\ ~isDragging /\ AnchorHeld)
              => AnchorHeld']_vars

\* What the handler computes for a pointer position on the rectangle cur.
MoveRectAt(cur, mouseX, mouseY) ==
    IF isDragging
    THEN DragRectAt(cur, mouseX, mouseY)
    ELSE ResizeRectAt(cur, mouseX, mouseY)

\* C6: delivering the same pointer-move a second time yields the rectangle
\* the first delivery produced (drag and resize).
C6_MoveIdempotent ==
    [][\A mouseX \in PointerXs, mouseY \in PointerYs :
          (HandleMouseMove(mouseX, mouseY) /\ (isDragging \/ isResizing))
              => MoveRectAt(Rect(cropX', cropY', cropWidth', cropHeight'),
                            mouseX, mouseY)
                 = Rect(cropX', cropY', cropWidth', cropHeight')]_vars

\* The drag anchor in image space: the pointer's offset from the rectangle's
\* top-left corner at press time.
AnchorX == RMul(dragStartX, scaleX)

AnchorY == RMul(dragStartY, scaleY)

\* C7: a pointer-down in Idle inside the rectangle (no corner) records the
\* pointer's image-space offset from the rectangle's top-left corner (the
\* anchor), and a pointer-move
\* in Dragging sets x = clamp(pointerImageX - anchorX, 0, imageWidth - width),
\* y = clamp(pointerImageY - anchorY, 0, imageHeight - height) and keeps width
\* and height; a candidate of 510 with width 100 in a 200 image is clamped
\* to 100.
C7_DragFormula ==
    [][/\ \A mouseX \in PointerXs, mouseY \in PointerYs :
            (/\ last' = "down"
             /\ Idle
             /\ ImageLoaded
             /\ HandleMouseDown(mouseX, mouseY)
             /\ HitCorner(mouseX, mouseY) = ""
             /\ InsideCropArea(mouseX, mouseY))
                => /\ isDragging'
                   /\ AnchorX' = RSub(RMul(I(mouseX), scaleX), cropX)
                   /\ AnchorY' = RSub(RMul(I(mouseY), scaleY), cropY)
       /\ \A mouseX \in PointerXs, mouseY \in PointerYs :
            (last' = "move" /\ isDragging /\ HandleMouseMove(mouseX, mouseY))
                => /\ cropX' = Clamp(RSub(RMul(I(mouseX), scaleX), AnchorX),
                                     Zero, RSub(I(imageWidth), cropWidth))
                   /\ cropY' = Clamp(RSub(RMul(I(mouseY), scaleY), AnchorY),
                                     Zero, RSub(I(imageHeight), cropHeight))
                   /\ cropWidth' = cropWidth
                   /\ cropHeight' = cropHeight
       /\ ConstrainPosition(I(510), 200, I(100)) = I(100)]_vars

\* A drag has pushed a rectangle lower than the image against the bottom edge.
C7_Witness ==
    /\ AfterDragMove
    /\ ~isResizing
    /\ RLt(cropHeight, I(imageHeight))
    /\ RAdd(cropY, cropHeight) = I(imageHeight)
    /\ cropY /= anchorRect.y
    /\ cropWidth = anchorRect.width
    /\ cropHeight = anchorRect.height

\* The bottom-right candidate stated from the pointer-down snapshot: dx is
\* the horizontal pointer displacement in image space since pointer-down.
BrWidth(mouseX) ==
    RMax(I(MIN_SIZE),
         RAdd(anchorRect.width, RMul(RSub(I(mouseX), I(resizeStartX)), scaleX)))

BrHeight(mouseX) == RDiv(BrWidth(mouseX), currentRatio)

BrFits(mouseX) ==
    /\ RLe(RAdd(cropX, BrWidth(mouseX)), I(imageWidth))
    /\ RLe(RAdd(cropY, BrHeight(mouseX)), I(imageHeight))

\* C8: with ratio r locked, a bottom-right resize whose result fits in the
\* image yields width = max(MIN_SIZE, anchorWidth + dx), height = width / r
\* and unchanged x, y; from {0, 0, 400, 300} with r = 4/3 on the 1000 x 1000
\* image, moving the pointer to image point (600, 600) gives {0, 0, 600, 450}.
C8_BottomRightLocked ==
    [][/\ \A mouseX \in PointerXs \cup ScenarioXs, mouseY \in PointerYs \cup ScenarioYs :
            (/\ last' = "move"
             /\ isResizing /\ ~isDragging
             /\ resizeCorner = "br"
             /\ RatioLocked
             /\ BrFits(mouseX)
             /\ HandleMouseMove(mouseX, mouseY))
                => /\ cropWidth' = BrWidth(mouseX)
                   /\ cropHeight' = BrHeight(mouseX)
                   /\ cropX' = cropX
                   /\ cropY' = cropY
       /\ (/\ last' = "move"
           /\ isResizing /\ ~isDragging
           /\ resizeCorner = "br"
           /\ aspectRatio = "4:3"
           /\ imageWidth = 1000 /\ imageHeight = 1000
           /\ CropRect = Rect(Zero, Zero, I(400), I(300))
           /\ anchorRect = CropRect
           /\ RMul(I(resizeStartX), scaleX) = I(400)
           /\ HandleMouseMove(240, 240))
              => /\ RMul(I(240), scaleX) = I(600)
                 /\ cropX' = Zero /\ cropY' = Zero
                 /\ RAdd(cropX', cropWidth') = I(600)
                 /\ RAdd(cropY', cropHeight') = I(450)]_vars

\* The scenario's bottom-right resize has acted: from {0, 0, 400, 300} at
\* ratio 4:3 on the 1000 x 1000 image to the corner (600, 450).
C8_Witness ==
    /\ AfterResizeMove
    /\ resizeCorner = "br"
    /\ aspectRatio = "4:3"
    /\ imageWidth = 1000
    /\ anchorRect = Rect(Zero, Zero, I(400), I(300))
    /\ CropRect = Rect(Zero, Zero, I(600), I(450))

\* The rectangle of the next state is inside the image, has the ratio the
\* next state's selection stands for, and is centered.
CenteredAtRatio ==
    /\ RLe(Zero, cropX')
    /\ RLe(Zero, cropY')
    /\ RLe(RAdd(cropX', cropWidth'), I(imageWidth))
    /\ RLe(RAdd(cropY', cropHeight'), I(imageHeight))
    /\ cropWidth' = RMul(RDiv(I(customRatioWidth'), I(customRatioHeight')),
                         cropHeight')
          \/ aspectRatio' /= "custom"
    /\ cropWidth' = cropHeight' \/ aspectRatio' /= "1:1"
    /\ RMul(I(3), cropWidth') = RMul(I(4), cropHeight') \/ aspectRatio' /= "4:3"
    /\ RMul(I(9), cropWidth') = RMul(I(16), cropHeight') \/ aspectRatio' /= "16:9"
    /\ RMul(I(2), cropWidth') = RMul(I(3), cropHeight') \/ aspectRatio' /= "3:2"
    /\ RMul(I(2), cropX') = RSub(I(imageWidth), cropWidth')
    /\ RMul(I(2), cropY') = RSub(I(imageHeight), cropHeight')

PositiveCustomRatio(w, h) == (w > 0 /\ h > 0) \/ (w < 0 /\ h < 0)

\* C9: on a loaded image, changing the selection to a preset ratio, or to a
\* custom ratio w/h > 0 (by selecting Custom or by changing its parts), sets
\* the crop rectangle to one inside the image, of that ratio, and centered.
C9_RatioSelection ==
    [][/\ \A value \in AspectRatios \ {"free"} :
            (/\ setAspectRatio(value)
             /\ value /= aspectRatio
             /\ ImageLoaded
             /\ value = "custom"
                  => PositiveCustomRatio(customRatioWidth, customRatioHeight))
                => CenteredAtRatio
       /\ \A text \in RatioTexts :
            (/\ setCustomRatioWidth(text) \/ setCustomRatioHeight(text)
             /\ <<customRatioWidth', customRatioHeight'>> /=
                    <<customRatioWidth, customRatioHeight>>
             /\ ImageLoaded
             /\ PositiveCustomRatio(customRatioWidth', customRatioHeight'))
                => CenteredAtRatio]_vars

\* A ratio was selected on the 400 x 200 image and the rectangle is the full
\* height, narrower than the image and centered.
C9_Witness ==
    /\ last = "ratio"
    /\ aspectRatio \notin {"free", "custom"}
    /\ imageWidth = 400
    /\ cropHeight = I(imageHeight)
    /\ RLt(Zero, cropX)
    /\ RAdd(RAdd(cropX, cropX), cropWidth) = I(imageWidth)

\* C10: selecting Free leaves x, y, width and height as they were.
C10_FreeKeepsRect ==
    [][setAspectRatio("free") => UNCHANGED cropVars]_vars

\* Free was selected while the rectangle was a centered ratio rectangle.
C10_Witness ==
    /\ last = "ratio"
    /\ aspectRatio = "free"
    /\ ImageLoaded
    /\ CropRect /= FullImage
    /\ InImage(CropRect)

\* C11: the reset command sets the crop rectangle to exactly
\* {0, 0, imageWidth, imageHeight}, from every reachable state.
C11_ResetRestoresFullImage ==
    [][(last' = "reset" /\ resetCrop)
          => Rect(cropX', cropY', cropWidth', cropHeight') = FullImage]_vars

\* Reset was pressed after a gesture on a ratio rectangle of the 400 x 200
\* image, with the ratio still selected.
C11_Witness ==
    /\ last = "reset"
    /\ imageWidth = 400
    /\ aspectRatio = "1:1"
    /\ anchorRect = Rect(I(100), Zero, I(200), I(200))
    /\ CropRect = FullImage

\* The export that settles in this step was requested with a rectangle of
\* zero width or zero height.
ZeroAreaJob ==
    /\ exportJob /= NoJob
    /\ exportJob.rect.width = Zero \/ exportJob.rect.height = Zero

\* C12: an export requested while the rectangle has width = 0 or height = 0
\* ends with the error message set and no file offered for download.
C12_ZeroAreaExportFails ==
    [][((last' = "exported" \/ last' = "exportFailed") /\ ZeroAreaJob)
          => (error' /= NoError /\ download' = download)]_vars

\* The model state an export must leave alone: the rectangle, the ratio
\* selection and the gesture.
ModelState == <<cropVars, ratioVars, dragVars, resizeVars>>

\* C13: an export that fails (the source image does not load) sets the error
\* message, puts isProcessing back to false so that export is enabled again
\* (while a file is selected),
\* and neither the request nor the failure changes the rectangle, the ratio
\* selection or the gesture flags.
C13_FailedExportKeepsState ==
    [][/\ (last' = "exportFailed" /\ exportImageError)
            => /\ error' = CropError
               /\ ~isProcessing'
               /\ (file /= NoFile) => ExportEnabled'
               /\ download' = download
               /\ UNCHANGED ModelState
       /\ (last' = "export" /\ cropImage) => UNCHANGED ModelState]_vars

\* An export of the corrupt image has failed while a rectangle and a ratio
\* from an earlier image were in place.
C13_Witness ==
    /\ last = "exportFailed"
    /\ file = CorruptFile
    /\ error = CropError
    /\ ~isProcessing
    /\ imageWidth = 200
    /\ aspectRatio = "16:9"
    /\ CropRect /= FullImage

\* C14: from Dragging and from Resizing a pointer-up or pointer-leave leads to
\* Idle, and the rectangle after it is the one the last pointer-move left.
C14_UpEndsGesture ==
    [][(last' = "up" /\ HandleMouseUp)
          => /\ ~isDragging'
             /\ ~isResizing'
             /\ UNCHANGED cropVars]_vars

\* A resize that changed the rectangle was ended by pointer-up or leave.
C14_Witness ==
    /\ last = "up"
    /\ Idle
    /\ resizeCorner = "tl"
    /\ ImageLoaded
    /\ CropRect /= anchorRect
    /\ CropRect /= FullImage

\* C15: isDragging and isResizing are never both true, whatever sequence of
\* pointer-down, move, up and leave events arrives (a second pointer-down
\* before a pointer-up included).
C15_OneGestureAtATime == ~(isDragging /\ isResizing)

\* The display position of a corner of the rectangle r.
CornerPoint(corner, r) ==
    LET left == RMul(r.x, DisplayPerImageX)
        right == RMul(RAdd(r.x, r.width), DisplayPerImageX)
        top == RMul(r.y, DisplayPerImageY)
        bottom == RMul(RAdd(r.y, r.height), DisplayPerImageY)
    IN  CASE corner = "br" -> <<right, bottom>>
          [] corner = "bl" -> <<left, bottom>>
          [] corner = "tr" -> <<right, top>>
          [] corner = "tl" -> <<left, top>>

\* The corners of r whose handle (10 display units on each axis) holds the
\* point.
NearCorners(mouseX, mouseY, r) ==
    { corner \in Corners :
        /\ RLt(RAbs(RSub(I(mouseX), CornerPoint(corner, r)[1])), I(10))
        /\ RLt(RAbs(RSub(I(mouseY), CornerPoint(corner, r)[2])), I(10)) }

FirstByPriority(S) ==
    IF "br" \in S THEN "br"
    ELSE IF "bl" \in S THEN "bl"
    ELSE IF "tr" \in S THEN "tr"
    ELSE "tl"

\* Two handles can hold the same point only when the rectangle is less than
\* two tolerances wide or high on the display.
HandlesOverlap ==
    \/ RLt(RAbs(RMul(cropWidth, DisplayPerImageX)), I(20))
    \/ RLt(RAbs(RMul(cropHeight, DisplayPerImageY)), I(20))

\* C16: a pointer-down within the handle tolerance of more than one corner
\* grasps the first of them in the order bottom-right, bottom-left, top-right,
\* top-left, and records that one corner in resizeCorner.
C16_CornerPriority ==
    [][(last' = "down" /\ imageWidth /= 0 /\ HandlesOverlap)
          => \A mouseX \in PointerXs, mouseY \in PointerYs :
                (/\ HandleMouseDown(mouseX, mouseY)
                 /\ Cardinality(NearCorners(mouseX, mouseY, CropRect)) > 1)
                    => /\ isResizing'
                       /\ resizeCorner' =
                              FirstByPriority(NearCorners(mouseX, mouseY, CropRect))
                       /\ resizeCorner' \in Corners]_vars

\* A pointer-down has landed on two overlapping handles and grasped the
\* bottom-right one.
C16_Witness ==
    /\ last = "down"
    /\ isResizing
    /\ imageWidth /= 0
    /\ NearCorners(resizeStartX, resizeStartY, CropRect) = {"br", "bl"}
    /\ resizeCorner = "br"

\* The display point lies in the closed box spanned by the top-left and the
\* bottom-right corner of r.
PointInside(mouseX, mouseY, r) ==
    /\ RLe(CornerPoint("tl", r)[1], I(mouseX))
    /\ RLe(I(mouseX), CornerPoint("br", r)[1])
    /\ RLe(CornerPoint("tl", r)[2], I(mouseY))
    /\ RLe(I(mouseY), CornerPoint("br", r)[2])

Elsewhere(mouseX, mouseY) ==
    /\ NearCorners(mouseX, mouseY, CropRect) = {}
    /\ ~PointInside(mouseX, mouseY, CropRect)

\* C17: a pointer-down in Idle that is neither inside the rectangle nor within
\* the handle tolerance of a corner leaves the gesture Idle and the rectangle,
\* the drag anchor and the resize snapshot unchanged.
C17_DownElsewhereIsNoOp ==
    [][\A mouseX \in PointerXs, mouseY \in PointerYs :
          (/\ last' = "down"
           /\ Idle
           /\ imageWidth /= 0
           /\ HandleMouseDown(mouseX, mouseY)
           /\ Elsewhere(mouseX, mouseY))
              => /\ ~isDragging'
                 /\ ~isResizing'
                 /\ UNCHANGED <<cropVars, dragVars, resizeVars>>]_vars

\* A pointer-down was delivered while the rectangle was a proper part of the
\* image with grid points outside it, and the gesture is Idle.
C17_Witness ==
    /\ last = "down"
    /\ Idle
    /\ ImageLoaded
    /\ RLt(Zero, cropX)
    /\ RLt(Zero, cropWidth)
    /\ \E mouseX \in PointerXs, mouseY \in PointerYs : Elsewhere(mouseX, mouseY)

\* C18: a pointer-down in Idle inside the rectangle and near no corner enters
\* Dragging; one within the handle tolerance of a corner enters Resizing on a
\* corner whose handle holds the point, with the current width and height
\* snapshotted, also when the point is inside the rectangle; the pointer-down
\* never changes the rectangle.
C18_DownStartsGesture ==
    [][\A mouseX \in PointerXs, mouseY \in PointerYs :
          (/\ last' = "down"
           /\ Idle
           /\ imageWidth /= 0
           /\ HandleMouseDown(mouseX, mouseY))
              => /\ UNCHANGED cropVars
                 /\ (/\ NearCorners(mouseX, mouseY, CropRect) = {}
                     /\ PointInside(mouseX, mouseY, CropRect))
                        => (isDragging' /\ ~isResizing')
                 /\ (NearCorners(mouseX, mouseY, CropRect) /= {})
                        => /\ isResizing' /\ ~isDragging'
                           /\ resizeCorner' \in NearCorners(mouseX, mouseY, CropRect)
                           /\ resizeStartWidth' = cropWidth
                           /\ resizeStartHeight' = cropHeight
                           /\ resizeStartX' = mouseX
                           /\ resizeStartY' = mouseY]_vars

\* A pointer-down on a corner point, which is also inside the rectangle, has
\* started a resize on that corner from a rectangle smaller than the image.
C18_Witness ==
    /\ last = "down"
    /\ isResizing /\ ~isDragging
    /\ ImageLoaded
    /\ CropRect /= FullImage
    /\ PointInside(resizeStartX, resizeStartY, CropRect)
    /\ NearCorners(resizeStartX, resizeStartY, CropRect) = {resizeCorner}
    /\ resizeStartWidth = cropWidth
    /\ resizeStartHeight = cropHeight

\* C19: while isDragging or isResizing is true, no change of the ratio
\* selection, of the custom ratio parts or of the image bounds rewrites the
\* crop rectangle.
C19_NoResolverMidGesture ==
    [][((isDragging \/ isResizing)
            /\ last' \in {"ratio", "customW", "customH", "load"})
          => UNCHANGED cropVars]_vars

\* The rectangle the resolver gives for the bounds iw x ih under the current
\* selection: the full image when Free (or no positive ratio), else the
\* centered largest rectangle of the ratio.
SeedRect(iw, ih) ==
    IF RatioLocked
    THEN CenteredRect(currentRatio, iw, ih)
    ELSE Rect(Zero, Zero, I(iw), I(ih))

\* C20: after an image finishes loading (first load or replacement, also by
\* an image of the same natural dimensions) the rectangle is the full image
\* when the ratio is Free and the centered largest rectangle of the selected
\* ratio otherwise.
C20_LoadSeedsRect ==
    [][(last' = "load" /\ onImageLoad)
          => Rect(cropX', cropY', cropWidth', cropHeight')
                 = SeedRect(file.width, file.height)]_vars

\* C21: after 'Remove Image' the stored x, y, width and height no longer hold
\* the rectangle of the removed image, and no gesture is in progress.
C21_RemoveResetsRect ==
    [][(last' = "remove" /\ ImageLoaded /\ RLt(Zero, cropWidth) /\ RemoveImage)
          => /\ Rect(cropX', cropY', cropWidth', cropHeight') /= CropRect
             /\ ~isDragging'
             /\ ~isResizing']_vars

\* C22: in every reachable state customRatioWidth >= 1 and
\* customRatioHeight >= 1 (a text that is empty, non-numeric, zero or negative
\* is stored as 1).
C22_CustomRatioAtLeastOne == customRatioWidth >= 1 /\ customRatioHeight >= 1

\* The 1-based position of the last '.' of the name, 0 when it has none.
RECURSIVE LastDot(_, _)
LastDot(name, i) ==
    IF i = 0 THEN 0
    ELSE IF SubSeq(name, i, i) = "." THEN i
    ELSE LastDot(name, i - 1)

\* The name without its extension, '_cropped', the extension; '.jpg' for a
\* name without any '.'.
CroppedName(name) ==
    LET dot == LastDot(name, Len(name))
    IN  IF dot = 0
        THEN name \o "_cropped.jpg"
        ELSE SubSeq(name, 1, dot - 1) \o "_cropped" \o SubSeq(name, dot, Len(name))

\* C23: the name of the exported download is the source name without its
\* extension, then '_cropped', then the source's extension; a source name
\* without any '.' gives '<name>_cropped.jpg'.
C23_DownloadName ==
    [][(last' = "exported" /\ exportImageLoaded)
          => download'.name = CroppedName(exportJob.file.name)]_vars

\* The resolver ran in this step: a dependency of the effect changed, and in
\* the new render an image is loaded and the selection stands for a ratio > 0.
ResolverRan ==
    /\ last' \in {"ratio", "customW", "customH", "load"}
    /\ <<aspectRatio', customRatioWidth', customRatioHeight', imageWidth',
         imageHeight'>> /=
           <<aspectRatio, customRatioWidth, customRatioHeight, imageWidth,
             imageHeight>>
    /\ imageWidth' > 0
    /\ imageHeight' > 0
    /\ RatioLocked'

\* C24: the resolver's rectangle is the largest of the ratio r that fits: if
\* imageWidth / imageHeight > r then height = imageHeight and
\* width = height * r, otherwise width = imageWidth and height = width / r;
\* so one of width = imageWidth, height = imageHeight holds, and neither
\* exceeds the image.
C24_LargestFit ==
    [][ResolverRan
          => /\ IF RLt(currentRatio', RDiv(I(imageWidth'), I(imageHeight')))
                THEN /\ cropHeight' = I(imageHeight')
                     /\ cropWidth' = RMul(cropHeight', currentRatio')
                ELSE /\ cropWidth' = I(imageWidth')
                     /\ cropHeight' = RDiv(cropWidth', currentRatio')
             /\ cropWidth' = I(imageWidth') \/ cropHeight' = I(imageHeight')
             /\ RLe(cropWidth', I(imageWidth'))
             /\ RLe(cropHeight', I(imageHeight'))]_vars

\* The 400 x 200 image has loaded with 1:1 selected beforehand: the rectangle
\* takes the image's height and is narrower than the image.
C24_Witness ==
    /\ last = "load"
    /\ aspectRatio = "1:1"
    /\ imageWidth = 400
    /\ cropHeight = I(imageHeight)
    /\ cropWidth = I(200)

\* C25: with a ratio locked, the rectangle a resize pointer-move produces does
\* not depend on the pointer's vertical position: the move that took place
\* gives the rectangle every move with the same displayX and another displayY
\* would have given, for each corner.
C25_LockedResizeIgnoresY ==
    [][(last' = "move" /\ isResizing /\ ~isDragging /\ RLt(Zero, currentRatio))
          => \A mouseX \in PointerXs, mouseY \in PointerYs :
                HandleMouseMove(mouseX, mouseY)
                    => \A otherY \in PointerYs :
                          ResizeRectAt(CropRect, mouseX, otherY)
                              = Rect(cropX', cropY', cropWidth', cropHeight')]_vars

\* A top-right resize under a locked ratio has changed the rectangle.
C25_Witness ==
    /\ AfterResizeMove
    /\ resizeCorner = "tr"
    /\ RLt(Zero, currentRatio)
    /\ CropRect /= anchorRect
    /\ RLt(cropWidth, I(imageWidth))

\* C26: in every state reachable after an image has loaded, cropWidth > 0 and
\* cropHeight > 0.
C26_PositiveExtent ==
    ImageLoaded => (RLt(Zero, cropWidth) /\ RLt(Zero, cropHeight))

\* C27: a pointer-move during Resizing at exactly the pointer-down position,
\* on the rectangle the gesture started from, leaves the crop rectangle
\* unchanged (each corner, free and locked ratio).
C27_ZeroMoveKeepsRect ==
    [][(/\ last' = "move"
        /\ isResizing /\ ~isDragging
        /\ CropRect = anchorRect
        /\ HandleMouseMove(resizeStartX, resizeStartY))
          => UNCHANGED cropVars]_vars

\* C28: a pointer-move received in Idle changes nothing: the crop rectangle,
\* the gesture flags, the drag anchor and the resize snapshot are unchanged,
\* for every pointer position.
C28_IdleMoveIsNoOp ==
    [][(last' = "move" /\ Idle)
          => \A mouseX \in PointerXs, mouseY \in PointerYs :
                HandleMouseMove(mouseX, mouseY)
                    => UNCHANGED <<cropVars, dragVars, resizeVars>>]_vars

\* A pointer-move arrived after a resize gesture had ended, over a rectangle
\* smaller than the image.
C28_Witness ==
    /\ last = "move"
    /\ Idle
    /\ ImageLoaded
    /\ resizeCorner /= ""
    /\ CropRect /= FullImage
    /\ CropRect /= anchorRect

\* C29: the export draws the rectangle as it was when the export was
\* requested, whatever happened to the stored rectangle between the request
\* and the image-load callback, and the output canvas is exactly as wide and
\* as high as the drawn sub-rectangle.
C29_ExportUsesRequestRect ==
    [][(last' = "exported" /\ exportImageLoaded)
          => /\ download'.rect = exportJob.rect
             /\ I(download'.canvasWidth) = download'.rect.width
             /\ I(download'.canvasHeight) = download'.rect.height]_vars

\* The first half of C29 alone: the drawn rectangle is the one of the request.
ExportDrawsRequestRect ==
    [][(last' = "exported" /\ exportImageLoaded)
          => download'.rect = exportJob.rect]_vars

\* An export settled after the stored rectangle had changed since the request.
ExportRectChangedMeanwhile ==
    /\ last = "exported"
    /\ download.rect /= CropRect
    /\ RLt(Zero, download.rect.width)

\* C30: every export that starts (isProcessing set to true) eventually
\* finishes with isProcessing = false, whether its image loads or fails, given
\* that the image fires load or error; and no export starts while
\* isProcessing is true.
C30_ExportFinishes ==
    /\ isProcessing ~> ~isProcessing
    /\ [][(last' = "export" /\ cropImage)
            => (~isProcessing /\ exportJob = NoJob)]_vars

\* An export of a loaded image has started and finished: the file was offered
\* for download and the export button is enabled again.
C30_Witness ==
    /\ last = "exported"
    /\ ~isProcessing
    /\ ExportEnabled
    /\ ImageLoaded
    /\ download.data = "image"
    /\ download.file = file

====
